---- MODULE Spec2Model ----
(***************************************************************************)
(* Model of the Cart service of src/ng-cart.js: the localStorage record,   *)
(* storage.allItems, the eventStack registry, and the public operations    *)
(* of the service.  Every action is one whole public call, including the   *)
(* event handlers it runs synchronously.                                   *)
(***************************************************************************)
EXTENDS Integers, Sequences, FiniteSets, TLC

VARIABLES
    localStorage,   \* the value stored under storage.key ('cart')
    allItems,       \* storage.allItems
    eventStack,     \* the registry of {type, fn} bindings
    lastOp,         \* the public call that produced this state, with its arguments
    pre,            \* the program state when that call started
    ret,            \* what the call returned
    log,            \* what the call did, in order: handler runs, broadcasts, writes
    gate,           \* the Reviewer the service was built with
    pending,        \* the reviews asked for and not yet settled
    ideal           \* the list the mutations made so far yield, applied in call order

vars == <<localStorage, allItems, eventStack, lastOp, pre, ret, log, gate, pending, ideal>>

----------------------------------------------------------------------------
\* Bounds of the model.

MaxId == 2          \* item ids are 1..MaxId
MaxQtyArg == 2      \* quantity arguments are 0..MaxQtyArg
MaxQty == 4         \* an operation that would take a qty above this is not explored
MaxBatch == 2       \* longest addItems argument, but for one object repeated
MaxRepeat == 3      \* times one object stands in an addItems argument of that object alone
MaxBindings == 3    \* longest eventStack
MaxPending == 2     \* most reviews left unsettled at once

Ids == 1..MaxId
QtyArgs == 0..MaxQtyArg
Qtys == 0..MaxQty

\* The event types the service itself fires, and the ones callers bind here.
BindTypes == {"sys-modified", "modified", "persisted"}

\* An item of the cart: {id, qty}.
Item(id, qty) == [id |-> id, qty |-> qty]

RECURSIVE SeqsUpTo(_, _)
SeqsUpTo(S, n) ==
    IF n = 0 THEN {<<>>}
    ELSE LET shorter == SeqsUpTo(S, n - 1)
         IN  shorter \cup {Append(s, x) : s \in {t \in shorter : Len(t) = n - 1}, x \in S}

ItemIds(items) == [i \in DOMAIN items |-> items[i].id]

NoDuplicates(items) ==
    \A i, j \in DOMAIN items : items[i].id = items[j].id => i = j

----------------------------------------------------------------------------
\* storage: the wrapper for localStorage.

\* The value undefined where a list of items is expected: what the init
\* handler is given by a fire without data.
Undefined == <<[undefined |-> TRUE]>>

\* The string 'undefined', which localStorage.setItem stores when it is given
\* undefined; it is not JSON.
UndefinedText == [kind |-> "undefined", val |-> <<>>]

\* angular.toJson on a list of {id, qty}: the serialized blob, modelled as the
\* sequence of <<id, qty>> pairs it spells out.  angular.toJson(undefined) is
\* undefined, which setItem stores as the string 'undefined'.
toJson(obj) ==
    IF obj = Undefined THEN UndefinedText
    ELSE [kind |-> "json", val |-> [i \in DOMAIN obj |-> <<obj[i].id, obj[i].qty>>]]

\* angular.fromJson on a blob written by toJson.
fromJson(blob) == [i \in DOMAIN blob.val |-> Item(blob.val[i][1], blob.val[i][2])]

\* localStorage.getItem: null when the key was never set, '' for an empty string.
Absent == [kind |-> "absent", val |-> <<>>]
EmptyString == [kind |-> "empty", val |-> <<>>]

\* A stored string that is not JSON.
Malformed == [kind |-> "malformed", val |-> <<>>]

\* storage.fetch passes every non-empty string to angular.fromJson, which
\* throws a SyntaxError on one that is not JSON.
fetchThrows(ls) == ls.kind \in {"malformed", "undefined"}

\* storage.fetch, when it returns.
fetch(ls) == IF ls.kind = "json" THEN fromJson(ls) ELSE <<>>

\* cart.getCart().items
getCart(ls) == fetch(ls)

----------------------------------------------------------------------------
\* What one public call does, in order: "fire" a call of fireCustomEvent,
\* "sys" and "fn" a run of the init handler and of a caller's handler,
\* "broadcast" a $rootScope.$broadcast, "setItem" a localStorage.setItem, "cb"
\* a run of the callback of changeQuantity, "throw" an error thrown.  depth 0 is what the call does
\* itself and the handlers its own fires run, depth 1 what the init handler
\* does when such a fire runs it, the handlers run by its fire of 'persisted'
\* included.  type is the sequence of the space-separated words.

LogEntry(kind, depth, idx, type, hasData, data) ==
    [kind |-> kind, depth |-> depth, idx |-> idx, type |-> type,
     hasData |-> hasData, data |-> data]

\* The state a call works on while it runs; thrown says an error is on its
\* way up to the caller.
Running(ls, all) ==
    [ls |-> ls, all |-> all, log |-> <<>>, pending |-> pending, thrown |-> FALSE]

Logged(st, e) == [st EXCEPT !.log = Append(@, e)]

\* throw: the rest of the call is skipped.
Throw(depth, st) ==
    [Logged(st, LogEntry("throw", depth, 0, <<>>, FALSE, <<>>)) EXCEPT !.thrown = TRUE]

\* throw new Error(errors[key]); key SyntaxError is the throw of
\* angular.fromJson in storage.fetch.
ThrowError(key, st) ==
    [Logged(st, LogEntry("throw", 0, 0, <<key>>, FALSE, <<>>)) EXCEPT !.thrown = TRUE]

----------------------------------------------------------------------------
\* The event bus: cart.onEvent, cart.fireCustomEvent, cart.unbindEvent.

Binding(type, fn) == [type |-> type, fn |-> fn]

\* The handler init registers; callers register "h".
SysFn == "sys"
UserFn == "h"

\* type.split(' '): the fired string is modelled as the sequence of its
\* space-separated words, eventTypes.indexOf(t) !== -1 as membership.
split(type) == {type[i] : i \in DOMAIN type}

RECURSIVE fireCustomEvent(_, _, _, _, _, _)

\* Reviewer.review: the thenable calls success at once and never failure.
review == "success"

\* The Reviewers a service may be built with: "stub" is the one of this
\* repository; a review routine put in its place settles, with success or
\* with failure, after the call has returned ("async").
Gates == {"stub", "async"}

gateReview == IF gate = "stub" THEN review ELSE "later"

\* storage.save
storageSave(obj, depth, st) ==
    [Logged(st, LogEntry("setItem", depth, 0, <<>>, obj # Undefined,
                         IF obj = Undefined THEN <<>> ELSE obj))
        EXCEPT !.ls = toJson(obj)]

\* persist as it would be with the event fired before the write.
persistFireFirst(es, depth, st) ==
    storageSave(st.all, depth,
                fireCustomEvent(es, <<"persisted">>, FALSE, <<>>, depth, st))

\* storage.persist
persist(es, depth, st) ==
    fireCustomEvent(es, <<"persisted">>, FALSE, <<>>, depth,
                    storageSave(st.all, depth, st))

\* cart.save: the success callback persists; a review that has not settled
\* leaves the success and the failure callback for later.
cartSave(es, depth, st) ==
    IF gateReview = "success" THEN persist(es, depth, st)
    ELSE [st EXCEPT !.pending = @ + 1]

\* cart.refresh
refresh(items, depth, st) ==
    Logged(st, LogEntry("broadcast", depth, 0, <<"cart-modified">>, items # Undefined,
                        IF items = Undefined THEN <<>> ELSE items))

\* The 'sys-modified' handler registered by init.
sysModified(es, items, depth, st) ==
    cartSave(es, depth, refresh(items, depth, [st EXCEPT !.all = items]))

\* One binding's fn(data).
invoke(es, i, hasData, data, depth, st) ==
    IF es[i].fn = SysFn
    THEN sysModified(es, IF hasData THEN data ELSE Undefined, depth + 1,
                     Logged(st, LogEntry("sys", depth, i, <<es[i].type>>, hasData, data)))
    ELSE Logged(st, LogEntry("fn", depth, i, <<es[i].type>>, hasData, data))

\* fireFrom as it would be with a break after the first matching binding.
fireFromFirst(i, es, eventTypes, hasData, data, depth, st) ==
    LET first == {j \in i..Len(es) : es[j].type \in eventTypes}
    IN  IF first = {} THEN st
        ELSE invoke(es, CHOOSE j \in first : \A k \in first : j <= k,
                    hasData, data, depth, st)

\* fireFrom as it would be with the registry walked from its end.
RECURSIVE fireFromReverse(_, _, _, _, _, _, _)
fireFromReverse(i, es, eventTypes, hasData, data, depth, st) ==
    IF i > Len(es) \/ st.thrown THEN st
    ELSE IF es[Len(es) + 1 - i].type \in eventTypes
         THEN fireFromReverse(i + 1, es, eventTypes, hasData, data, depth,
                              invoke(es, Len(es) + 1 - i, hasData, data, depth, st))
         ELSE fireFromReverse(i + 1, es, eventTypes, hasData, data, depth, st)

\* The loop of cart.fireCustomEvent from position i on.
RECURSIVE fireFrom(_, _, _, _, _, _, _)
fireFrom(i, es, eventTypes, hasData, data, depth, st) ==
    IF i > Len(es) \/ st.thrown THEN st
    ELSE IF es[i].type \in eventTypes
         THEN fireFrom(i + 1, es, eventTypes, hasData, data, depth,
                       invoke(es, i, hasData, data, depth, st))
         ELSE fireFrom(i + 1, es, eventTypes, hasData, data, depth, st)

\* cart.fireCustomEvent
fireCustomEvent(es, type, hasData, data, depth, st) ==
    fireFrom(1, es, split(type), hasData, data, depth,
             Logged(st, LogEntry("fire", depth, 0, type, hasData, data)))

RemoveAt(s, i) == [j \in 1..(Len(s) - 1) |-> IF j < i THEN s[j] ELSE s[j + 1]]

\* unbindFrom as it would be with splice(i) in place of splice(i, 1): the
\* bindings from the first match on are all dropped.
RECURSIVE unbindFromTail(_, _, _, _)
unbindFromTail(i, n, type, es) ==
    IF i > n \/ i > Len(es) THEN es
    ELSE IF es[i].type = type THEN SubSeq(es, 1, i - 1)
    ELSE unbindFromTail(i + 1, n, type, es)

\* The loop of cart.unbindEvent: for (var i in eventStack) visits the keys the
\* array had when the loop started, skipping a key that is gone by the time it
\* is reached; splice(i, 1) shifts the later bindings down while i moves on.
RECURSIVE unbindFrom(_, _, _, _)
unbindFrom(i, n, type, es) ==
    IF i > n THEN es
    ELSE IF i > Len(es) THEN unbindFrom(i + 1, n, type, es)
    ELSE IF es[i].type = type THEN unbindFrom(i + 1, n, type, RemoveAt(es, i))
    ELSE unbindFrom(i + 1, n, type, es)

\* cart.unbindEvent
unbindEvent(type, es) == unbindFrom(1, Len(es), type, es)

----------------------------------------------------------------------------
\* The cart operations.

\* cart.getById(id, itemsToUse).index: the position (from 0) of the last item
\* with that id, -1 when there is none.
RECURSIVE getByIdFrom(_, _, _, _)
getByIdFrom(i, id, cartItems, idx) ==
    IF i > Len(cartItems) THEN idx
    ELSE getByIdFrom(i + 1, id, cartItems, IF cartItems[i].id = id THEN i - 1 ELSE idx)

getById(id, cartItems) == getByIdFrom(1, id, cartItems, 0 - 1)

\* addOne as it would be without the look-up of an existing item.
addOneAlwaysPush(item, cartItems) == Append(cartItems, item)

\* One turn of the angular.forEach of cart.addItems on the list cartItems.
addOne(item, cartItems) ==
    LET existing == getById(item.id, cartItems)
    IN  IF existing # 0 - 1
        THEN [cartItems EXCEPT ![existing + 1].qty = @ + item.qty]
        ELSE Append(cartItems, item)

\* The entries of a batch are the caller's objects.  items gives what each
\* entry held when the call was made and objs which object it is: objs[i] is
\* the position at which the object of entry i first stands in the batch, so
\* two entries with the same objs are one object.  cartItems.push(item) puts
\* the object itself into the list, where cartItems[index].qty += ... changes
\* it; at[o] is the position in the list at which the object o was pushed,
\* 0 while it is not in the list.
NotPushed(items) == [o \in DOMAIN items |-> 0]

\* The object of entry i as it is now.
current(i, items, objs, cartItems, at) ==
    IF at[objs[i]] # 0 THEN cartItems[at[objs[i]]] ELSE items[i]

\* at after the turn of entry i.
pushedAt(i, items, objs, cartItems, at) ==
    IF getById(current(i, items, objs, cartItems, at).id, cartItems) = 0 - 1
    THEN [at EXCEPT ![objs[i]] = Len(cartItems) + 1]
    ELSE at

\* The list after the turns of the entries i..n of the angular.forEach of
\* cart.addItems.
RECURSIVE addLoop(_, _, _, _, _, _)
addLoop(i, n, items, objs, cartItems, at) ==
    IF i > n THEN cartItems
    ELSE addLoop(i + 1, n, items, objs,
                 addOne(current(i, items, objs, cartItems, at), cartItems),
                 pushedAt(i, items, objs, cartItems, at))

\* addItemsFrom as it would be with the fire after the loop, not inside it.
addItemsFromOnce(i, items, objs, es, cartItems, at, st) ==
    [cartItems |-> addLoop(i, Len(items), items, objs, cartItems, at),
     st |-> IF items = <<>> THEN st
            ELSE fireCustomEvent(es, <<"modified", "added", "sys-modified">>, TRUE,
                                 addLoop(i, Len(items), items, objs, cartItems, at), 0, st)]

\* cart.addItems from the i-th entry on: the list and the running state.
RECURSIVE addItemsFrom(_, _, _, _, _, _, _)
addItemsFrom(i, items, objs, es, cartItems, at, st) ==
    IF i > Len(items) \/ st.thrown THEN [cartItems |-> cartItems, st |-> st]
    ELSE LET next == addOne(current(i, items, objs, cartItems, at), cartItems)
         IN  addItemsFrom(i + 1, items, objs, es, next,
                 pushedAt(i, items, objs, cartItems, at),
                 fireCustomEvent(es, <<"modified", "added", "sys-modified">>,
                                 TRUE, next, 0, st))

\* cart.addItems: isArray tells whether the argument is an array.
addItems(isArray, items, objs, es, st) ==
    IF ~isArray THEN [cartItems |-> <<>>, st |-> ThrowError("itemsNotArray", st)]
    ELSE IF fetchThrows(st.ls)
    THEN [cartItems |-> <<>>, st |-> ThrowError("SyntaxError", st)]
    ELSE addItemsFrom(1, items, objs, es, getCart(st.ls), NotPushed(items), st)

\* cart.addItem: qty = qty || 1
defaultQty(hasQty, qty) == IF hasQty /\ qty # 0 THEN qty ELSE 1

\* addItem as it would be with the id looked at after the work is done.
addItemLateCheck(hasId, id, hasQty, qty, es, st) ==
    LET r == addItems(TRUE, <<Item(id, defaultQty(hasQty, qty))>>, <<1>>, es, st)
    IN  IF ~hasId THEN [cartItems |-> <<>>, st |-> ThrowError("idMandatory", r.st)]
        ELSE r

\* cart.addItem: hasId tells whether id is defined.
addItem(hasId, id, hasQty, qty, es, st) ==
    IF ~hasId THEN [cartItems |-> <<>>, st |-> ThrowError("idMandatory", st)]
    ELSE addItems(TRUE, <<Item(id, defaultQty(hasQty, qty))>>, <<1>>, es, st)

\* cart.remove
remove(id, es, st) ==
    LET index == getById(id, getCart(st.ls))
        cartItems == getCart(st.ls)
    IN  IF fetchThrows(st.ls) THEN [ret |-> FALSE, st |-> ThrowError("SyntaxError", st)]
        ELSE IF index # 0 - 1
        THEN LET spliced == RemoveAt(cartItems, index + 1)
             IN  [ret |-> TRUE,
                  st |-> fireCustomEvent(es, <<"modified", "removed", "sys-modified">>,
                                         TRUE, spliced, 0, st)]
        ELSE [ret |-> FALSE, st |-> st]

\* clear as it would be without 'sys-modified' among the fired types.
clearNoSys(es, st) ==
    fireCustomEvent(es, <<"modified", "removed", "cleared">>, TRUE, <<>>, 0, st)

\* cart.clear
clear(es, st) ==
    fireCustomEvent(es, <<"modified", "removed", "cleared", "sys-modified">>,
                    TRUE, <<>>, 0, st)

\* cart.changeQuantity
changeQuantity(id, qty, cb, es, st) ==
    LET cartItems == getCart(st.ls)
        fresh == getCart(st.ls)
        index == getById(id, fresh)
    IN  IF fetchThrows(st.ls) THEN [ret |-> FALSE, st |-> ThrowError("SyntaxError", st)]
        ELSE IF index # 0 - 1
        THEN LET updatedItem == [fresh[index + 1] EXCEPT !.qty = qty]
                 replaced == [cartItems EXCEPT ![index + 1] = updatedItem]
                 fired == fireCustomEvent(es, <<"modified", "updated", "sys-modified">>,
                                          TRUE, replaced, 0, st)
             IN  [ret |-> TRUE,
                  st |-> IF cb /\ ~fired.thrown
                         THEN Logged(fired, LogEntry("cb", 0, 0, <<>>, TRUE, replaced))
                         ELSE fired]
        ELSE [ret |-> FALSE, st |-> st]

----------------------------------------------------------------------------
\* The record of the last public call.

Op(name, id, hasQty, qty, items, type, cb) ==
    [name |-> name, id |-> id, hasQty |-> hasQty, qty |-> qty, items |-> items,
     type |-> type, cb |-> cb, valid |-> TRUE, objs |-> <<>>]

\* A call whose argument has not the form the operation asks for: addItem
\* without an id, addItems with something that is not an array.
BadArg(op) == [op EXCEPT !.valid = FALSE]

Ret(kind, b, items) == [kind |-> kind, b |-> b, items |-> items]

Void == Ret("void", FALSE, <<>>)

\* What the caller gets from a call that ran in st: r, or the error thrown.
Outcome(r, st) == IF st.thrown THEN Ret("throw", FALSE, <<>>) ELSE r

Snapshot == [ls |-> localStorage, all |-> allItems, es |-> eventStack]

QtyInBounds(items) == \A i \in DOMAIN items : items[i].qty \in Qtys

\* The arguments the model passes.
ItemArgs == {Item(id, q) : id \in Ids, q \in QtyArgs}

\* Which entries of a batch of n are one object: objs[i] is i or the position
\* of an earlier entry that stands first for its object.
Aliasings(n) ==
    {t \in [1..n -> 1..n] : \A i \in 1..n : t[i] <= i /\ t[t[i]] = t[i]}

BatchesOf(n) ==
    {b \in [items : [1..n -> ItemArgs], objs : Aliasings(n)] :
        \A i \in 1..n : b.items[i] = b.items[b.objs[i]]}

\* One object passed MaxRepeat times.
Repeats ==
    {[items |-> [i \in 1..MaxRepeat |-> x], objs |-> [i \in 1..MaxRepeat |-> 1]] :
        x \in ItemArgs}

Batches == UNION {BatchesOf(n) : n \in 0..MaxBatch} \cup Repeats
FireTypes == SeqsUpTo(BindTypes, 2) \ {<<>>}

\* The carts a persisted record may hold when the service is constructed.
StartItems == {Item(id, q) : id \in Ids, q \in 1..MaxQtyArg}
StartCarts == {c \in SeqsUpTo(StartItems, MaxId) : NoDuplicates(c)}

\* A public call starts when the previous one has returned.
Idle == Op("idle", 0, FALSE, 0, <<>>, <<>>, FALSE)

\* The list the mutations made so far yield when each is applied, in call
\* order, to the list the one before left.  It is kept for a service whose
\* Reviewer settles later, as long as the calls are mutations, reads and
\* approvals, the quantities stay within the bounds and the record has not
\* been left different from it with no review pending; ok says it is kept.
Tracked(items) == [ok |-> TRUE, items |-> items]
Untracked == [ok |-> FALSE, items |-> <<>>]

\* What a call makes of the list items: as the operations do, remove and
\* changeQuantity act on the last entry of the id (getById keeps the last
\* index).
applied(op, items) ==
    CASE op.name = "addItem" /\ op.valid ->
             addOne(Item(op.id, defaultQty(op.hasQty, op.qty)), items)
      [] op.name = "addItems" /\ op.valid ->
             addLoop(1, Len(op.items), op.items, op.objs, items, NotPushed(op.items))
      [] op.name = "remove" ->
             LET index == getById(op.id, items)
             IN  IF index # 0 - 1 THEN RemoveAt(items, index + 1) ELSE items
      [] op.name = "changeQuantity" ->
             LET index == getById(op.id, items)
             IN  IF index # 0 - 1 THEN [items EXCEPT ![index + 1].qty = op.qty] ELSE items
      [] op.name = "clear" -> <<>>
      [] OTHER -> items

idealAfter(op) ==
    IF ~ideal.ok THEN ideal
    ELSE IF pending = 0 /\ getCart(localStorage) # ideal.items THEN Untracked
    ELSE IF op.name \notin {"getCart", "addItem", "addItems", "remove", "changeQuantity",
                            "clear", "reviewApproved"}
    THEN Untracked
    ELSE IF QtyInBounds(applied(op, ideal.items)) THEN Tracked(applied(op, ideal.items))
    ELSE Untracked

\* The effect of a call on the program state and on the record of the call.
Done(op, r, st, es) ==
    /\ st.pending <= MaxPending
    /\ localStorage' = st.ls
    /\ allItems' = st.all
    /\ eventStack' = es
    /\ lastOp' = op
    /\ pre' = Snapshot
    /\ ret' = Outcome(r, st)
    /\ log' = st.log
    /\ gate' = gate
    /\ pending' = st.pending
    /\ ideal' = idealAfter(op)

Start == Running(localStorage, allItems)

----------------------------------------------------------------------------
\* The service after construction: storage.allItems is [], init has bound
\* the 'sys-modified' handler and fired 'initialized' to no binding.

Constructed(records, gates) ==
    /\ localStorage \in records
    /\ gate \in gates
    /\ pending = 0
    /\ allItems = <<>>
    /\ eventStack = <<Binding("sys-modified", SysFn)>>
    /\ lastOp = Op("init", 0, FALSE, 0, <<>>, <<"initialized">>, FALSE)
    /\ pre = [ls |-> localStorage, all |-> <<>>, es |-> <<>>]
    /\ ret = Void
    /\ log = <<>>
    /\ ideal = IF gate = "async" THEN Tracked(fetch(localStorage)) ELSE Untracked

StartRecords == {Absent, EmptyString} \cup {toJson(c) : c \in StartCarts}

\* The service of this repository over a well-formed record.
Init == Constructed(StartRecords, {"stub"})

GetCart ==
    /\ lastOp = Idle
    /\ Done(Op("getCart", 0, FALSE, 0, <<>>, <<>>, FALSE),
            Ret("list", FALSE, getCart(localStorage)),
            IF fetchThrows(localStorage) THEN ThrowError("SyntaxError", Start) ELSE Start,
            eventStack)

AddItem ==
    /\ lastOp = Idle
    /\ \E hasId \in BOOLEAN, id \in Ids, hasQty \in BOOLEAN, qty \in QtyArgs :
           LET r == addItem(hasId, id, hasQty, qty, eventStack, Start)
               op == [Op("addItem", IF hasId THEN id ELSE 0, hasQty, qty, <<>>, <<>>, FALSE)
                         EXCEPT !.objs = <<1>>]
           IN  /\ hasQty \/ qty = 0
               /\ hasId \/ id = 1
               /\ QtyInBounds(r.cartItems)
               /\ Done(IF hasId THEN op ELSE BadArg(op),
                       Ret("list", FALSE, r.cartItems), r.st, eventStack)

AddItems ==
    /\ lastOp = Idle
    /\ \E isArray \in BOOLEAN, batch \in Batches :
           LET r == addItems(isArray, batch.items, batch.objs, eventStack, Start)
               op == [Op("addItems", 0, FALSE, 0, batch.items, <<>>, FALSE)
                         EXCEPT !.objs = batch.objs]
           IN  /\ isArray \/ batch.items = <<>>
               /\ QtyInBounds(r.cartItems)
               /\ Done(IF isArray THEN op ELSE BadArg(op),
                       Ret("list", FALSE, r.cartItems), r.st, eventStack)

Remove ==
    /\ lastOp = Idle
    /\ \E id \in Ids :
           LET r == remove(id, eventStack, Start)
           IN  Done(Op("remove", id, FALSE, 0, <<>>, <<>>, FALSE),
                    Ret("bool", r.ret, <<>>), r.st, eventStack)

Clear ==
    /\ lastOp = Idle
    /\ Done(Op("clear", 0, FALSE, 0, <<>>, <<>>, FALSE), Void,
            clear(eventStack, Start), eventStack)

ChangeQuantity ==
    /\ lastOp = Idle
    /\ \E id \in Ids, qty \in QtyArgs, cb \in BOOLEAN :
           LET r == changeQuantity(id, qty, cb, eventStack, Start)
           IN  Done(Op("changeQuantity", id, TRUE, qty, <<>>, <<>>, cb),
                    Ret("bool", r.ret, <<>>), r.st, eventStack)

Save ==
    /\ lastOp = Idle
    /\ Done(Op("save", 0, FALSE, 0, <<>>, <<>>, FALSE), Void,
            cartSave(eventStack, 0, Start), eventStack)

OnEvent ==
    /\ lastOp = Idle
    /\ \E type \in BindTypes :
           /\ Len(eventStack) < MaxBindings
           /\ Done(Op("onEvent", 0, FALSE, 0, <<>>, <<type>>, FALSE), Void,
                   Start, Append(eventStack, Binding(type, UserFn)))

FireCustomEvent ==
    /\ lastOp = Idle
    /\ \E type \in FireTypes :
           Done(Op("fireCustomEvent", 0, FALSE, 0, getCart(localStorage), type, FALSE), Void,
                fireCustomEvent(eventStack, type, TRUE, getCart(localStorage), 0, Start),
                eventStack)

UnbindEvent ==
    /\ lastOp = Idle
    /\ \E type \in BindTypes :
           Done(Op("unbindEvent", 0, FALSE, 0, <<>>, <<type>>, FALSE), Void,
                Start, unbindEvent(type, eventStack))

\* The caller is done with what the call returned; the service waits for the
\* next call.
Return ==
    /\ lastOp # Idle
    /\ lastOp' = Idle
    /\ pre' = Snapshot
    /\ ret' = Void
    /\ log' = <<>>
    /\ UNCHANGED <<localStorage, allItems, eventStack, gate, pending, ideal>>

Next ==
    \/ Return
    \/ GetCart
    \/ AddItem
    \/ AddItems
    \/ Remove
    \/ Clear
    \/ ChangeQuantity
    \/ Save
    \/ OnEvent
    \/ FireCustomEvent
    \/ UnbindEvent

Spec == Init /\ [][Next]_vars

----------------------------------------------------------------------------
\* The service in other surroundings: built with a Reviewer that settles
\* later, or over a string that is not JSON.

\* A review left unsettled is accepted: the success callback of cart.save runs.
ReviewApproved ==
    /\ lastOp = Idle
    /\ pending > 0
    /\ Done(Op("reviewApproved", 0, FALSE, 0, <<>>, <<>>, FALSE), Void,
            [persist(eventStack, 0, Start) EXCEPT !.pending = @ - 1], eventStack)

\* A review left unsettled is rejected: the Reviewer calls the failure
\* callback of cart.save, which throws into the Reviewer's call.
ReviewRejected ==
    /\ lastOp = Idle
    /\ pending > 0
    /\ Done(Op("reviewRejected", 0, FALSE, 0, <<>>, <<>>, FALSE), Void,
            [Throw(0, Start) EXCEPT !.pending = @ - 1], eventStack)

\* The service built over whatever string the key holds, a string that is not
\* JSON included.
InitStore == Constructed(StartRecords \cup {Malformed}, {"stub"})

SpecStore == InitStore /\ [][Next]_vars

\* The service built with a Reviewer that settles after the call returned; the
\* cart calls and the settling of reviews, the registry left as init made it.
InitAsync == Constructed(StartRecords, {"async"})

NextAsync ==
    \/ Return
    \/ GetCart
    \/ AddItem
    \/ AddItems
    \/ Remove
    \/ Clear
    \/ ChangeQuantity
    \/ Save
    \/ ReviewApproved
    \/ ReviewRejected

SpecAsync == InitAsync /\ [][NextAsync]_vars

----------------------------------------------------------------------------
\* Readings of the current state.

\* What cart.getCart().items is now, and what it was when the last call started.
Cart == getCart(localStorage)
PreCart == getCart(pre.ls)

TypeOK ==
    /\ localStorage.kind \in {"absent", "empty", "malformed", "undefined", "json"}
    /\ allItems # Undefined
    /\ QtyInBounds(Cart)
    /\ Len(eventStack) <= MaxBindings

\* Readings the properties below share.

Has(items, id) == \E i \in DOMAIN items : items[i].id = id

Entries(items, id) == {i \in DOMAIN items : items[i].id = id}

\* The quantity the list holds for id, 0 when it holds none.
QtyOf(items, id) ==
    IF Has(items, id) THEN items[CHOOSE i \in DOMAIN items : items[i].id = id].qty ELSE 0

\* The sum of the quantities a batch gives for id.
RECURSIVE SumQty(_, _)
SumQty(batch, id) ==
    IF batch = <<>> THEN 0
    ELSE (IF Head(batch).id = id THEN Head(batch).qty ELSE 0) + SumQty(Tail(batch), id)

\* The ids of a batch that are not in known, each once, in input order.
RECURSIVE NewIds(_, _)
NewIds(batch, known) ==
    IF batch = <<>> THEN <<>>
    ELSE IF Head(batch).id \in known THEN NewIds(Tail(batch), known)
         ELSE <<Head(batch).id>> \o NewIds(Tail(batch), known \cup {Head(batch).id})

IdSet(items) == {items[i].id : i \in DOMAIN items}

Without(items, id) == LET Keep(x) == x.id # id IN SelectSeq(items, Keep)

\* The batch an add call was given, an addItem(id, q) read as addItems of one
\* entry {id, q}, q being 1 when it was left out.
GivenBatch ==
    IF lastOp.name = "addItem"
    THEN <<Item(lastOp.id, IF lastOp.hasQty THEN lastOp.qty ELSE 1)>>
    ELSE lastOp.items

IsAdd == lastOp.name \in {"addItem", "addItems"} /\ lastOp.valid

\* The init handler was registered when the last call started.
SysBound == \E i \in DOMAIN pre.es : pre.es[i].fn = SysFn

\* The runs of the init handler made by the call's own fires.
Deliveries == LET IsSys(e) == e.kind = "sys" /\ e.depth = 0 IN SelectSeq(log, IsSys)

\* The call's own fires.
Fires == LET IsFire(e) == e.kind = "fire" /\ e.depth = 0 IN SelectSeq(log, IsFire)

\* The handler runs made by the call's own fires.
Runs == LET IsRun(e) == e.kind \in {"sys", "fn"} /\ e.depth = 0 IN SelectSeq(log, IsRun)

----------------------------------------------------------------------------
\* C1: from a duplicate-free persisted cart, after any sequence of addItem,
\* addItems (batches that repeat an id included), remove, changeQuantity and
\* clear, the cart holds at most one item per id.
C1_Uniqueness == NoDuplicates(Cart) /\ NoDuplicates(allItems)

C1_Witness ==
    /\ lastOp.name = "addItems"
    /\ Len(lastOp.items) = 2
    /\ lastOp.items[1].id = lastOp.items[2].id
    /\ ~Has(PreCart, lastOp.items[1].id)
    /\ Cardinality(Entries(Cart, lastOp.items[1].id)) = 1
    /\ Len(Cart) = 2

\* C2: addItem(id, q) on a cart without id yields a new entry {id, qty: q}
\* (qty 1 when q is left out), on a cart holding id with quantity p a single
\* entry of quantity p + q; the other entries keep their quantities; the
\* same per entry of an addItems batch, cumulatively.
C2_AddQuantities ==
    IsAdd =>
        \A id \in Ids :
            /\ Has(Cart, id) <=> (Has(PreCart, id) \/ Has(GivenBatch, id))
            /\ Cardinality(Entries(Cart, id)) <= 1
            /\ QtyOf(Cart, id) = QtyOf(PreCart, id) + SumQty(GivenBatch, id)

\* C2, where it holds: the same with the init handler registered, every
\* quantity given to addItem other than 0 and no object twice in a batch.
C2_AddQuantitiesBound ==
    (/\ IsAdd
     /\ SysBound
     /\ ~(lastOp.name = "addItem" /\ lastOp.hasQty /\ lastOp.qty = 0)
     /\ \A i \in DOMAIN lastOp.objs : lastOp.objs[i] = i)
        => C2_AddQuantities

\* C3: new ids are appended at the end in input order, an add of an existing
\* id and a changeQuantity leave the sequence of ids as it was, a remove
\* deletes one id and keeps the order of the others.
C3_InsertionOrder ==
    /\ IsAdd => ItemIds(Cart) = ItemIds(PreCart) \o NewIds(GivenBatch, IdSet(PreCart))
    /\ lastOp.name = "changeQuantity" => ItemIds(Cart) = ItemIds(PreCart)
    /\ lastOp.name = "remove" => ItemIds(Cart) = ItemIds(Without(PreCart, lastOp.id))

C3_InsertionOrderBound == SysBound => C3_InsertionOrder

\* C4: remove(id) returns true and deletes exactly the entry of that id if and
\* only if the id was in the cart; otherwise it returns false, leaves the
\* cart list and the persisted record as they were and fires no event.
C4_Remove ==
    lastOp.name = "remove" =>
        /\ ret.b <=> Has(PreCart, lastOp.id)
        /\ ret.b => Cart = Without(PreCart, lastOp.id)
        /\ ~ret.b => (Cart = PreCart /\ localStorage = pre.ls /\ log = <<>>)

C4_RemoveBound == SysBound => C4_Remove

\* C5: changeQuantity(id, n) returns true if and only if id is in the cart, and
\* then sets that entry's quantity to n at the same position, every other
\* entry unchanged; otherwise it returns false, changes neither the cart
\* list nor the persisted record, fires no event and does not run the
\* callback.
C5_ChangeQuantity ==
    lastOp.name = "changeQuantity" =>
        /\ ret.b <=> Has(PreCart, lastOp.id)
        /\ ret.b =>
               /\ Len(Cart) = Len(PreCart)
               /\ \A i \in DOMAIN PreCart :
                      Cart[i] = IF PreCart[i].id = lastOp.id
                                THEN Item(lastOp.id, lastOp.qty)
                                ELSE PreCart[i]
        /\ ~ret.b => (Cart = PreCart /\ localStorage = pre.ls /\ log = <<>>)

C5_ChangeQuantityBound == SysBound => C5_ChangeQuantity

\* C6: with the init handler registered (and the Reviewer approving), clear()
\* in any reachable state leaves an empty cart and an empty persisted record.
C6_Clear ==
    (lastOp.name = "clear" /\ SysBound) =>
        /\ Cart = <<>>
        /\ localStorage = toJson(<<>>)
        /\ allItems = <<>>

C6_Witness ==
    /\ lastOp.name = "clear"
    /\ SysBound
    /\ Len(PreCart) = 2
    /\ Cart = <<>>

\* The batch an add call works on: addItem passes addItems one entry.
WorkedBatch ==
    IF lastOp.name = "addItem"
    THEN <<Item(lastOp.id, defaultQty(lastOp.hasQty, lastOp.qty))>>
    ELSE lastOp.items

\* The list after the first k entries of a batch were added to items.
AfterAdds(items, batch, k) ==
    addLoop(1, k, batch, lastOp.objs, items, NotPushed(batch))

\* The lists a mutation passes through, one per discrete change.
Changes ==
    CASE IsAdd -> [k \in 1..Len(WorkedBatch) |-> AfterAdds(PreCart, WorkedBatch, k)]
      [] lastOp.name = "remove" /\ ret.b -> <<Without(PreCart, lastOp.id)>>
      [] lastOp.name = "changeQuantity" /\ ret.b ->
             <<[i \in DOMAIN PreCart |->
                   IF PreCart[i].id = lastOp.id THEN Item(lastOp.id, lastOp.qty)
                   ELSE PreCart[i]]>>
      [] lastOp.name = "clear" -> << <<>> >>
      [] OTHER -> <<>>

IsMutation == lastOp.name \in {"addItem", "addItems", "remove", "changeQuantity", "clear"}

\* The discrete changes of a mutation: one per entry of an add, one for a
\* remove or changeQuantity that found its id, one for a clear.
Discrete ==
    IF IsAdd THEN Len(WorkedBatch)
    ELSE IF lastOp.name \in {"remove", "changeQuantity"} /\ ret.b THEN 1
    ELSE IF lastOp.name = "clear" THEN 1
    ELSE 0

\* C7: with the init handler registered (and the Reviewer approving), a
\* mutation delivers 'sys-modified' once per discrete change (one per entry
\* of an addItems batch, one per successful remove, changeQuantity or clear,
\* none for a failed remove or changeQuantity), each delivery carries the
\* whole list as it is at that point, and when the call returns the
\* persisted record is the list of the last delivery.
\* For an add the list of the k-th delivery is stated from the batch: its ids
\* are those of the list before the call followed by the new ids of the first
\* k entries, an id none of these entries names keeps its quantity, and, as
\* long as no object stands twice among them, every id has the quantity it
\* had plus what these entries give for it.
C7_Deliveries ==
    (IsMutation /\ SysBound) =>
        /\ Len(Deliveries) = Discrete
        /\ Len(Fires) = Discrete
        /\ \A k \in DOMAIN Deliveries : Deliveries[k].hasData
        /\ IsAdd =>
               \A k \in DOMAIN Deliveries :
                   LET d == Deliveries[k].data
                       given == SubSeq(WorkedBatch, 1, k)
                   IN  /\ ItemIds(d) = ItemIds(PreCart) \o NewIds(given, IdSet(PreCart))
                       /\ \A id \in Ids :
                              ~Has(given, id) => QtyOf(d, id) = QtyOf(PreCart, id)
                       /\ (\A i \in 1..k : lastOp.objs[i] = i) =>
                              \A id \in Ids :
                                  QtyOf(d, id) = QtyOf(PreCart, id) + SumQty(given, id)
        /\ ~IsAdd => \A k \in DOMAIN Deliveries : Deliveries[k].data = Changes[k]
        /\ IF Deliveries = <<>> THEN localStorage = pre.ls
           ELSE /\ localStorage = toJson(Deliveries[Len(Deliveries)].data)
                /\ IsAdd => ret.items = Deliveries[Len(Deliveries)].data

\* One object three times in a batch: three deliveries, the last with the
\* quantity doubled twice.
C7_Witness ==
    /\ lastOp.name = "addItems"
    /\ SysBound
    /\ Len(lastOp.items) = 3
    /\ lastOp.objs = <<1, 1, 1>>
    /\ lastOp.items[1].qty = 1
    /\ Len(PreCart) = 1
    /\ Len(Deliveries) = 3
    /\ Len(Deliveries[1].data) = 2
    /\ Deliveries[1].data[2].qty = 1
    /\ Deliveries[2].data[2].qty = 2
    /\ Deliveries[3].data[2].qty = 4
    /\ localStorage = toJson(Deliveries[3].data)

\* C8: after unbindEvent(t) no binding of type t is left in the registry,
\* however many there were and whether or not they were adjacent.
C8_UnbindRemovesAll ==
    lastOp.name = "unbindEvent" =>
        \A i \in DOMAIN eventStack : eventStack[i].type # lastOp.type[1]

\* C9: unbindEvent(t) leaves every binding of another type in the registry,
\* in the same relative order, and changes neither the cart list nor the
\* persisted record.
C9_UnbindFrame ==
    lastOp.name = "unbindEvent" =>
        LET Other(b) == b.type # lastOp.type[1]
        IN  /\ SelectSeq(eventStack, Other) = SelectSeq(pre.es, Other)
            /\ localStorage = pre.ls
            /\ allItems = pre.all
            /\ Cart = PreCart

C9_Witness ==
    /\ lastOp.name = "unbindEvent"
    /\ Len(pre.es) = 3
    /\ pre.es[1].type # lastOp.type[1]
    /\ pre.es[2].type = lastOp.type[1]
    /\ pre.es[3].type # lastOp.type[1]
    /\ eventStack = <<pre.es[1], pre.es[3]>>
    /\ Len(Cart) > 0

\* The positions of the bindings a fire of these words matches.
Matching(es, type) == {i \in DOMAIN es : es[i].type \in split(type)}

\* C10: a fire of a space-separated set of types runs, before the firing call
\* returns and in registration order, every binding whose type is in the
\* set and no other, each once and with the fired data; two registrations
\* of one type are both kept and both run.
C10_Fire ==
    Len(Fires) = 1 =>
        /\ {Runs[k].idx : k \in DOMAIN Runs} = Matching(pre.es, Fires[1].type)
        /\ \A j, k \in DOMAIN Runs : j < k => Runs[j].idx < Runs[k].idx
        /\ \A k \in DOMAIN Runs :
               /\ Runs[k].hasData = Fires[1].hasData
               /\ Runs[k].data = Fires[1].data
               /\ Runs[k].type = <<pre.es[Runs[k].idx].type>>

C10_Witness ==
    /\ lastOp.name = "fireCustomEvent"
    /\ Len(pre.es) = 3
    /\ Len(Runs) = 2
    /\ pre.es[2] = pre.es[3]
    /\ Runs[1].idx = 2
    /\ Runs[2].idx = 3
    /\ Len(Runs[1].data) > 0

\* The writes to localStorage and the fires of 'persisted' of the last call.
Writes == {k \in DOMAIN log : log[k].kind = "setItem"}
PersistedFires == {k \in DOMAIN log : log[k].kind = "fire" /\ log[k].type = <<"persisted">>}

\* C11: after an approved save the persisted record is the serialized
\* in-memory list, and 'persisted' is fired only after that write, once per
\* approved save.
C11_Persist ==
    /\ \A k \in Writes :
           /\ k < Len(log)
           /\ (k + 1) \in PersistedFires
           /\ log[k + 1].depth = log[k].depth
    /\ lastOp.name # "fireCustomEvent" => Cardinality(PersistedFires) = Cardinality(Writes)
    /\ Writes # {} => localStorage = toJson(allItems)

C11_Witness ==
    /\ lastOp.name = "addItems"
    /\ Cardinality(Writes) = 2
    /\ Cardinality(PersistedFires) = 2
    /\ \E k \in DOMAIN log : log[k].kind = "fn" /\ log[k].type = <<"persisted">>
    /\ Len(allItems) = 2
    /\ localStorage = toJson(allItems)

----------------------------------------------------------------------------
\* The calls of cart.save made by the last call: one per run of the
\* 'sys-modified' handler, and the call itself when it is save.
SaveCalls == {k \in DOMAIN log : log[k].kind = "sys"}

SaveCalled == lastOp.name = "save" \/ SaveCalls # {}

Thrown == {k \in DOMAIN log : log[k].kind = "throw"}

\* The calls a caller of the service makes; the settling of a review is a
\* call the Reviewer makes.
CallerCalls ==
    {"getCart", "addItem", "addItems", "remove", "clear", "changeQuantity", "save",
     "onEvent", "fireCustomEvent", "unbindEvent"}

\* A call of the service ended in an error for the one who called the service.
ErrorToCaller == lastOp.name \in CallerCalls /\ ret.kind = "throw"

\* When the review rejects a save, the persisted record is left as it was,
\* nothing is written, no 'persisted' event is fired and the failure callback
\* throws.
C12_RecordKept ==
    lastOp.name = "reviewRejected" =>
        /\ localStorage = pre.ls
        /\ Writes = {}
        /\ PersistedFires = {}
        /\ Thrown # {}

\* With a review that settles later, the call that asked for it returns
\* without an error.
C12_CallReturns ==
    (gate = "async" /\ lastOp.name \in CallerCalls /\ SaveCalled) => ~ErrorToCaller

\* C12: when the review rejects a save, the persisted record is left as it
\* was, nothing is written, no 'persisted' event is fired, and the rejection
\* reaches the caller of the service as an error.
C12_Rejection ==
    lastOp.name = "reviewRejected" =>
        /\ localStorage = pre.ls
        /\ Writes = {}
        /\ PersistedFires = {}
        /\ ErrorToCaller

----------------------------------------------------------------------------
\* C13: addItem without an id and addItems with an argument that is not an
\* array end in an error at once; the list, the persisted record and the
\* registry are what they were, and no event is fired, no handler run and
\* nothing broadcast.
C13_InvalidArgument ==
    (lastOp.name \in {"addItem", "addItems"} /\ ~lastOp.valid) =>
        /\ ret.kind = "throw"
        /\ Snapshot = pre
        /\ Len(log) = 1
        /\ log[1].kind = "throw"
        /\ log[1].type =
               <<IF lastOp.name = "addItem" THEN "idMandatory" ELSE "itemsNotArray">>

C13_Witness ==
    /\ lastOp.name = "addItem"
    /\ ~lastOp.valid
    /\ lastOp.hasQty
    /\ ret.kind = "throw"
    /\ Len(Cart) > 0
    /\ Len(eventStack) > 1

----------------------------------------------------------------------------
\* C14: getCart returns a list and raises no error whatever the key holds,
\* and the list is empty when the key is absent, the empty string or a
\* string that is not JSON.
C14_GetCartTotal ==
    lastOp.name = "getCart" =>
        /\ ret.kind = "list"
        /\ pre.ls.kind \in {"absent", "empty", "malformed"} => ret.items = <<>>

----------------------------------------------------------------------------
\* C15: the items getCart returns are the in-memory list of the store
\* (storage.allItems) at every point after construction.
C15_GetCartInMemory ==
    (lastOp.name = "getCart" /\ ret.kind = "list") => ret.items = allItems

----------------------------------------------------------------------------
\* C16: whatever integer quantities the callers pass, every item of the cart
\* has a quantity of at least 1.
C16_PositiveQty ==
    /\ \A i \in DOMAIN Cart : Cart[i].qty >= 1
    /\ \A i \in DOMAIN allItems : allItems[i].qty >= 1

----------------------------------------------------------------------------
Broadcasts == {k \in DOMAIN log : log[k].kind = "broadcast"}

\* C17: the binding init makes on 'sys-modified' stays for good: whatever
\* calls came before, a mutation that changes the list sets the in-memory list
\* to the changed list, broadcasts cart-modified and calls save (which, the
\* Reviewer approving, writes the record).
C17_SysPermanent ==
    (IsMutation /\ Len(Changes) > 0 /\ gate = "stub") =>
        /\ allItems = Changes[Len(Changes)]
        /\ Cardinality(Broadcasts) = Len(Changes)
        /\ Cardinality(SaveCalls) = Len(Changes)
        /\ Cardinality(Writes) = Len(Changes)

\* The same with the binding still in the registry when the call starts.
C17_SysPermanentBound ==
    SysBound => C17_SysPermanent

----------------------------------------------------------------------------
\* C18: with a Reviewer that settles later, mutations made while earlier
\* reviews are pending lose nothing: once every pending review has been
\* approved, the persisted record is the list the mutations yield when applied
\* in call order.
C18_NoLostUpdate ==
    (gate = "async" /\ ideal.ok /\ pending = 0) => Cart = ideal.items

----------------------------------------------------------------------------
\* The runs, by the call's own fires, of handlers that callers bound to one
\* of the mutation events.
ExternalRuns ==
    {k \in DOMAIN log :
        /\ log[k].kind = "fn"
        /\ log[k].depth = 0
        /\ log[k].type[1] \in {"modified", "added", "removed", "updated", "cleared"}}

\* The fire that run k belongs to.
FireOf(k) ==
    CHOOSE f \in 1..k :
        /\ log[f].kind = "fire" /\ log[f].depth = 0
        /\ \A g \in (f + 1)..k : ~(log[g].kind = "fire" /\ log[g].depth = 0)

\* C19: the init handler being the first binding of the registry, in every
\* mutation (the handler still bound, the Reviewer approving at once) the
\* run of the init handler, the broadcast and the write come, in this order,
\* before any handler a caller bound to modified, added, removed, updated or
\* cleared runs for the same fire; the write is the only one since the fire
\* and wrote the list the handler is given.
C19_SysFirst ==
    (IsMutation /\ SysBound /\ gate = "stub") =>
        \A k \in ExternalRuns :
            \E a, b, c \in FireOf(k)..k :
                /\ a < b /\ b < c /\ c < k
                /\ log[a].kind = "sys" /\ log[a].depth = 0 /\ log[a].data = log[k].data
                /\ log[b].kind = "broadcast" /\ log[b].data = log[k].data
                /\ log[c].kind = "setItem" /\ log[c].data = log[k].data
                /\ \A w \in Writes : (FireOf(k) < w /\ w < k) => w = c

C19_Witness ==
    /\ lastOp.name = "addItems"
    /\ SysBound
    /\ Cardinality(ExternalRuns) = 4
    /\ Cardinality(Writes) = 2
    /\ localStorage = toJson(log[Len(log)].data)

----------------------------------------------------------------------------
\* C20: a direct call of save, the Reviewer approving, leaves the contents of
\* the cart as they were: the list the persisted record holds, which is the
\* list getCart returns, is the same after it as before.
C20_SaveKeepsCart ==
    (lastOp.name = "save" /\ gate = "stub") => Cart = PreCart

====
